---- MODULE Spec2Model ----
(***************************************************************************)
(* Field guards of async-graphql (src/guard.rs): the Guard and PostGuard   *)
(* capabilities and their combinators And, Or and PostAnd.                 *)
(*                                                                         *)
(* A guard tree is built once and then checked many times.  Every check    *)
(* call is a future: one future per node of the tree, created when the     *)
(* parent's code reaches the call expression, completed when the node's    *)
(* async fn returns.  Leaves are user-supplied guards; a leaf's verdict is *)
(* a function of the context (and field result) it is handed.              *)
(***************************************************************************)
EXTENDS Integers, Sequences, FiniteSets, TLC

\* Largest number of leaf guards in a tree.
MaxLeaves == 4
\* Number of check calls the engine may have in flight at once.
NCalls == 2

Calls == 1..NCalls

(***************************************************************************)
(* Result<()>: Ok(()) is 0, Err(e) is the error value e >= 1.              *)
(***************************************************************************)
Ok == 0
Err(e) == e
IsOk(r) == r = Ok
IsErr(r) == r # Ok

\* Result::and as called on line 38: the receiver's error, else the argument.
ResultAndFlipped(self, res) == IF IsErr(res) THEN res ELSE self
ResultAnd(self, res) == IF IsOk(self) THEN res ELSE self

\* Result::or as called on line 48: the receiver's Ok, else the argument.
ResultOrFlipped(self, res) == IF IsOk(res) THEN res ELSE self
ResultOr(self, res) == IF IsOk(self) THEN self ELSE res

(***************************************************************************)
(* Guard trees.  Leaves are numbered; the combinators own their children.  *)
(***************************************************************************)
Guard(i) == [kind |-> "Guard", id |-> i]
PostGuard(i) == [kind |-> "PostGuard", id |-> i]
And(A, B) == [kind |-> "And", f0 |-> A, f1 |-> B]
Or(A, B) == [kind |-> "Or", f0 |-> A, f1 |-> B]
PostAnd(A, B) == [kind |-> "PostAnd", f0 |-> A, f1 |-> B]

IsLeaf(t) == t.kind \in {"Guard", "PostGuard"}

\* GuardExt::and / GuardExt::or applied to every pair of guards over the
\* leaves lo..hi, numbered left to right.
RECURSIVE GuardTrees(_, _)
GuardTrees(lo, hi) ==
    IF lo = hi THEN {Guard(lo)}
    ELSE UNION { { And(a, b) : a \in GuardTrees(lo, k), b \in GuardTrees(k + 1, hi) }
                 \cup { Or(a, b) : a \in GuardTrees(lo, k), b \in GuardTrees(k + 1, hi) }
                 : k \in lo..(hi - 1) }

\* PostGuardExt::and applied to every pair of post-guards over lo..hi.
RECURSIVE PostGuardTrees(_, _)
PostGuardTrees(lo, hi) ==
    IF lo = hi THEN {PostGuard(lo)}
    ELSE UNION { { PostAnd(a, b) : a \in PostGuardTrees(lo, k),
                                   b \in PostGuardTrees(k + 1, hi) }
                 : k \in lo..(hi - 1) }

AllTrees == UNION { GuardTrees(1, n) \cup PostGuardTrees(1, n) : n \in 1..MaxLeaves }

\* The trees checked by several calls at once: each combinator over two
\* leaves, and a nesting of And in Or.
SharedTrees ==
    { And(Guard(1), Guard(2)), Or(Guard(1), Guard(2)),
      PostAnd(PostGuard(1), PostGuard(2)),
      Or(And(Guard(1), Guard(2)), Guard(3)) }

\* Nodes are named by their path from the root: 0 is self.0, 1 is self.1.
RECURSIVE Paths(_)
Paths(t) ==
    IF IsLeaf(t) THEN {<<>>}
    ELSE {<<>>} \cup { <<0>> \o p : p \in Paths(t.f0) }
                \cup { <<1>> \o p : p \in Paths(t.f1) }

RECURSIVE Sub(_, _)
Sub(t, p) ==
    IF p = <<>> THEN t
    ELSE Sub(IF Head(p) = 0 THEN t.f0 ELSE t.f1, Tail(p))

RECURSIVE LeafIds(_)
LeafIds(t) == IF IsLeaf(t) THEN {t.id} ELSE LeafIds(t.f0) \cup LeafIds(t.f1)

\* A context, seen through the only thing the guards do with it: the verdict
\* each leaf reaches on it.  Leaf l fails with its own error l.
Contexts(t) == { x \in [LeafIds(t) -> {Ok} \cup { Err(l) : l \in LeafIds(t) }] :
                   \A l \in LeafIds(t) : x[l] \in {Ok, Err(l)} }

NoCtx(t) == [l \in LeafIds(t) |-> Ok]

VARIABLES
    tree,     \* the guard attached to the field
    slots,    \* the call slots the engine uses
    status,   \* per call: "idle", "running" (future held by the engine) or "dropped"
    ctx,      \* per call: the context it was given
    fut       \* per call, per node: the future of that node's check

vars == <<tree, slots, status, ctx, fut>>

\* A node's future: not yet created, running (its check has been entered
\* and has not returned), or done with its output.  calls counts the entries.
NewFut == [st |-> "new", out |-> Ok, calls |-> 0]
NoFuts(t) == [p \in Paths(t) |-> NewFut]

A(p) == Append(p, 0)
B(p) == Append(p, 1)

\* Entering the check of node p.
Invoke(f, p) == [f EXCEPT ![p].st = "run", ![p].calls = @ + 1]
\* Node p's check returns r.
Return(f, p, r) == [f EXCEPT ![p].st = "done", ![p].out = r]

\* A call makes progress only while its caller still holds its future.
LiveDetached(c) == status[c] \in {"running", "dropped"}
Live(c) == status[c] = "running"

\* The verdict of leaf l in call c.
VerdictShared(c, l) == ctx[1][l]
Verdict(c, l) == ctx[c][l]

TypeOK ==
    /\ tree \in AllTrees \cup SharedTrees
    /\ slots \subseteq Calls
    /\ status \in [Calls -> {"idle", "running", "dropped"}]
    /\ \A c \in Calls : ctx[c] \in Contexts(tree)
    /\ \A c \in Calls : DOMAIN fut[c] = Paths(tree)

InitWith(t, s) ==
    /\ tree = t
    /\ slots = s
    /\ status = [c \in Calls |-> "idle"]
    /\ ctx = [c \in Calls |-> NoCtx(t)]
    /\ fut = [c \in Calls |-> NoFuts(t)]

\* One field resolution at a time, any tree.
Init == \E t \in AllTrees : InitWith(t, {1})
\* Several resolutions of the same field in flight.
InitShared == \E t \in SharedTrees : InitWith(t, Calls)

\* The engine calls check on the root with a context.
StartCheck(c) ==
    /\ c \in slots
    /\ status[c] = "idle"
    /\ \E x \in Contexts(tree) :
        /\ ctx' = [ctx EXCEPT ![c] = x]
        /\ status' = [status EXCEPT ![c] = "running"]
        /\ fut' = [fut EXCEPT ![c] = Invoke(@, <<>>)]
    /\ UNCHANGED <<tree, slots>>

\* A leaf guard's check, suspended since it was entered, returns its verdict.
LeafReturn(c, p) ==
    /\ Live(c)
    /\ fut[c][p].st = "run"
    /\ IsLeaf(Sub(tree, p))
    /\ fut' = [fut EXCEPT ![c] = Return(@, p, Verdict(c, Sub(tree, p).id))]
    /\ UNCHANGED <<tree, slots, status, ctx>>

\* And::check cut short: B is skipped once A has failed.
AndCheckShort(c, p) ==
    /\ Live(c)
    /\ fut[c][p].st = "run"
    /\ Sub(tree, p).kind = "And"
    /\ LET f == fut[c] IN
       fut' = [fut EXCEPT ![c] =
                 IF f[A(p)].st = "new" THEN Invoke(f, A(p))
                 ELSE IF f[A(p)].st = "done" /\ IsErr(f[A(p)].out)
                      THEN Return(f, p, f[A(p)].out)
                 ELSE IF f[A(p)].st = "done" /\ f[B(p)].st = "new" THEN Invoke(f, B(p))
                 ELSE IF f[A(p)].st = "done" /\ f[B(p)].st = "done"
                      THEN Return(f, p, ResultAnd(f[A(p)].out, f[B(p)].out))
                 ELSE f]
    /\ fut'[c] # fut[c]
    /\ UNCHANGED <<tree, slots, status, ctx>>

\* And::check joining its children: both futures are entered before either
\* is awaited.
AndCheckJoin(c, p) ==
    /\ Live(c)
    /\ fut[c][p].st = "run"
    /\ Sub(tree, p).kind = "And"
    /\ LET f == fut[c] IN
       fut' = [fut EXCEPT ![c] =
                 IF f[A(p)].st = "new" THEN Invoke(Invoke(f, A(p)), B(p))
                 ELSE IF f[A(p)].st = "done" /\ f[B(p)].st = "done"
                      THEN Return(f, p, ResultAnd(f[A(p)].out, f[B(p)].out))
                 ELSE f]
    /\ fut'[c] # fut[c]
    /\ UNCHANGED <<tree, slots, status, ctx>>

\* And::check, one step of its body:
\*     self.0.check(ctx).await.and(self.1.check(ctx).await)
AndCheck(c, p) ==
    /\ Live(c)
    /\ fut[c][p].st = "run"
    /\ Sub(tree, p).kind = "And"
    /\ LET f == fut[c] IN
       fut' = [fut EXCEPT ![c] =
                 IF f[A(p)].st = "new" THEN Invoke(f, A(p))
                 ELSE IF f[A(p)].st = "done" /\ f[B(p)].st = "new" THEN Invoke(f, B(p))
                 ELSE IF f[A(p)].st = "done" /\ f[B(p)].st = "done"
                      THEN Return(f, p, ResultAnd(f[A(p)].out, f[B(p)].out))
                 ELSE f]
    /\ fut'[c] # fut[c]
    /\ UNCHANGED <<tree, slots, status, ctx>>

\* Or::check cut short: B is skipped once A has succeeded.
OrCheckShort(c, p) ==
    /\ Live(c)
    /\ fut[c][p].st = "run"
    /\ Sub(tree, p).kind = "Or"
    /\ LET f == fut[c] IN
       fut' = [fut EXCEPT ![c] =
                 IF f[A(p)].st = "new" THEN Invoke(f, A(p))
                 ELSE IF f[A(p)].st = "done" /\ IsOk(f[A(p)].out)
                      THEN Return(f, p, f[A(p)].out)
                 ELSE IF f[A(p)].st = "done" /\ f[B(p)].st = "new" THEN Invoke(f, B(p))
                 ELSE IF f[A(p)].st = "done" /\ f[B(p)].st = "done"
                      THEN Return(f, p, ResultOr(f[A(p)].out, f[B(p)].out))
                 ELSE f]
    /\ fut'[c] # fut[c]
    /\ UNCHANGED <<tree, slots, status, ctx>>

\* Or::check, one step of its body:
\*     self.0.check(ctx).await.or(self.1.check(ctx).await)
OrCheck(c, p) ==
    /\ Live(c)
    /\ fut[c][p].st = "run"
    /\ Sub(tree, p).kind = "Or"
    /\ LET f == fut[c] IN
       fut' = [fut EXCEPT ![c] =
                 IF f[A(p)].st = "new" THEN Invoke(f, A(p))
                 ELSE IF f[A(p)].st = "done" /\ f[B(p)].st = "new" THEN Invoke(f, B(p))
                 ELSE IF f[A(p)].st = "done" /\ f[B(p)].st = "done"
                      THEN Return(f, p, ResultOr(f[A(p)].out, f[B(p)].out))
                 ELSE f]
    /\ fut'[c] # fut[c]
    /\ UNCHANGED <<tree, slots, status, ctx>>

\* PostAnd::check without the ?: B is checked whatever A returned.
PostAndCheckEager(c, p) ==
    /\ Live(c)
    /\ fut[c][p].st = "run"
    /\ Sub(tree, p).kind = "PostAnd"
    /\ LET f == fut[c] IN
       fut' = [fut EXCEPT ![c] =
                 IF f[A(p)].st = "new" THEN Invoke(f, A(p))
                 ELSE IF f[A(p)].st = "done" /\ f[B(p)].st = "new" THEN Invoke(f, B(p))
                 ELSE IF f[A(p)].st = "done" /\ f[B(p)].st = "done"
                      THEN Return(f, p, ResultAnd(f[A(p)].out, f[B(p)].out))
                 ELSE f]
    /\ fut'[c] # fut[c]
    /\ UNCHANGED <<tree, slots, status, ctx>>

\* PostAnd::check discarding B's result: once A passed, so does the pair.
PostAndCheckIgnoreB(c, p) ==
    /\ Live(c)
    /\ fut[c][p].st = "run"
    /\ Sub(tree, p).kind = "PostAnd"
    /\ LET f == fut[c] IN
       fut' = [fut EXCEPT ![c] =
                 IF f[A(p)].st = "new" THEN Invoke(f, A(p))
                 ELSE IF f[A(p)].st = "done" /\ IsErr(f[A(p)].out)
                      THEN Return(f, p, f[A(p)].out)
                 ELSE IF f[A(p)].st = "done" /\ f[B(p)].st = "new" THEN Invoke(f, B(p))
                 ELSE IF f[A(p)].st = "done" /\ f[B(p)].st = "done"
                      THEN Return(f, p, f[A(p)].out)
                 ELSE f]
    /\ fut'[c] # fut[c]
    /\ UNCHANGED <<tree, slots, status, ctx>>

\* PostAnd::check, one step of its body:
\*     self.0.check(ctx, result).await?;
\*     self.1.check(ctx, result).await
PostAndCheck(c, p) ==
    /\ Live(c)
    /\ fut[c][p].st = "run"
    /\ Sub(tree, p).kind = "PostAnd"
    /\ LET f == fut[c] IN
       fut' = [fut EXCEPT ![c] =
                 IF f[A(p)].st = "new" THEN Invoke(f, A(p))
                 ELSE IF f[A(p)].st = "done" /\ IsErr(f[A(p)].out)
                      THEN Return(f, p, f[A(p)].out)
                 ELSE IF f[A(p)].st = "done" /\ f[B(p)].st = "new" THEN Invoke(f, B(p))
                 ELSE IF f[A(p)].st = "done" /\ f[B(p)].st = "done"
                      THEN Return(f, p, f[B(p)].out)
                 ELSE f]
    /\ fut'[c] # fut[c]
    /\ UNCHANGED <<tree, slots, status, ctx>>

\* The engine drops the call's future while it is suspended in a leaf.
Abandon(c) ==
    /\ status[c] = "running"
    /\ \E p \in Paths(tree) : IsLeaf(Sub(tree, p)) /\ fut[c][p].st = "run"
    /\ status' = [status EXCEPT ![c] = "dropped"]
    /\ UNCHANGED <<tree, slots, ctx, fut>>

\* The engine has the call's result, or has dropped the call; the slot
\* serves the next access.
Release(c) ==
    /\ \/ status[c] = "running" /\ fut[c][<<>>].st = "done"
       \/ status[c] = "dropped"
    /\ status' = [status EXCEPT ![c] = "idle"]
    /\ ctx' = [ctx EXCEPT ![c] = NoCtx(tree)]
    /\ fut' = [fut EXCEPT ![c] = NoFuts(tree)]
    /\ UNCHANGED <<tree, slots>>

Next ==
    \/ \E c \in Calls : StartCheck(c)
    \/ \E c \in Calls : \E p \in DOMAIN fut[c] : LeafReturn(c, p)
    \/ \E c \in Calls : \E p \in DOMAIN fut[c] : AndCheck(c, p)
    \/ \E c \in Calls : \E p \in DOMAIN fut[c] : OrCheck(c, p)
    \/ \E c \in Calls : \E p \in DOMAIN fut[c] : PostAndCheck(c, p)
    \/ \E c \in Calls : Abandon(c)
    \/ \E c \in Calls : Release(c)

Spec == Init /\ [][Next]_vars
SpecShared == InitShared /\ [][Next]_vars

(***************************************************************************)
(* Properties.                                                             *)
(***************************************************************************)
NodesOf(kinds) == { p \in Paths(tree) : Sub(tree, p).kind \in kinds }
Done(c, p) == fut[c][p].st = "done"
InFlight(c, p) == fut[c][p].st = "run"
Suspended(c) == \E p \in NodesOf({"Guard", "PostGuard"}) : InFlight(c, p)

\* The pairwise outcome rules, applied bottom-up to the leaves' verdicts.
RECURSIVE Expected(_, _)
Expected(t, x) ==
    IF IsLeaf(t) THEN x[t.id]
    ELSE LET a == Expected(t.f0, x)
             b == Expected(t.f1, x)
         IN  IF t.kind = "Or" THEN (IF a = Ok THEN Ok ELSE b)
             ELSE (IF a # Ok THEN a ELSE b)

\* C1: a completed And(A,B).check returns A's failure whenever A failed and
\* otherwise exactly B's result; it succeeds iff both succeeded, and on joint
\* failure the error is A's.
C1_AndOutcome ==
    \A c \in Calls : \A p \in NodesOf({"And"}) :
        Done(c, p) =>
            LET a == fut[c][A(p)]
                b == fut[c][B(p)]
                r == fut[c][p].out
            IN  /\ a.st = "done" /\ b.st = "done"
                /\ a.out # Ok => r = a.out
                /\ a.out = Ok => r = b.out
                /\ r = Ok <=> (a.out = Ok /\ b.out = Ok)

C1_Witness ==
    \E c \in Calls : \E p \in NodesOf({"And"}) :
        /\ Done(c, p)
        /\ fut[c][A(p)].out # Ok /\ fut[c][B(p)].out # Ok
        /\ fut[c][A(p)].out # fut[c][B(p)].out
        /\ fut[c][p].out = fut[c][A(p)].out

\* C2: a completed Or(A,B).check returns success whenever A succeeded and
\* otherwise exactly B's result; it succeeds iff at least one succeeded, and
\* on joint failure the error is B's.
C2_OrOutcome ==
    \A c \in Calls : \A p \in NodesOf({"Or"}) :
        Done(c, p) =>
            LET a == fut[c][A(p)]
                b == fut[c][B(p)]
                r == fut[c][p].out
            IN  /\ a.st = "done" /\ b.st = "done"
                /\ a.out = Ok => r = Ok
                /\ a.out # Ok => r = b.out
                /\ r = Ok <=> (a.out = Ok \/ b.out = Ok)

C2_Witness ==
    \E c \in Calls : \E p \in NodesOf({"Or"}) :
        /\ Done(c, p)
        /\ fut[c][A(p)].out # Ok /\ fut[c][B(p)].out # Ok
        /\ fut[c][A(p)].out # fut[c][B(p)].out
        /\ fut[c][p].out = fut[c][B(p)].out

\* C3: when an And(A,B).check has run to completion, A.check and B.check
\* have each been entered exactly once, also when A failed.
C3_AndRunsBoth ==
    \A c \in Calls : \A p \in NodesOf({"And"}) :
        Done(c, p) => fut[c][A(p)].calls = 1 /\ fut[c][B(p)].calls = 1

C3_Witness ==
    \E c \in Calls : \E p \in NodesOf({"And"}) :
        /\ Done(c, p)
        /\ fut[c][A(p)].out # Ok
        /\ fut[c][B(p)].calls = 1 /\ Done(c, B(p))

\* C4: when an Or(A,B).check has run to completion, A.check and B.check
\* have each been entered exactly once, also when A succeeded.
C4_OrRunsBoth ==
    \A c \in Calls : \A p \in NodesOf({"Or"}) :
        Done(c, p) => fut[c][A(p)].calls = 1 /\ fut[c][B(p)].calls = 1

C4_Witness ==
    \E c \in Calls : \E p \in NodesOf({"Or"}) :
        /\ Done(c, p)
        /\ fut[c][A(p)].out = Ok
        /\ fut[c][B(p)].calls = 1 /\ Done(c, B(p)) /\ fut[c][B(p)].out # Ok

\* C5: in a PostAnd(A,B).check, B.check is entered only after A.check has
\* returned success; if A.check failed, B.check is never entered and A's
\* error is returned.
C5_PostAndShortCircuit ==
    \A c \in Calls : \A p \in NodesOf({"PostAnd"}) :
        LET a == fut[c][A(p)]
            b == fut[c][B(p)]
        IN  /\ (b.calls > 0 \/ b.st # "new") => (a.st = "done" /\ a.out = Ok)
            /\ (a.st = "done" /\ a.out # Ok) => (b.calls = 0 /\ b.st = "new")
            /\ (Done(c, p) /\ a.out # Ok) => fut[c][p].out = a.out

C5_Witness ==
    \E c \in Calls : \E p \in NodesOf({"PostAnd"}) :
        /\ Done(c, p)
        /\ fut[c][A(p)].out # Ok
        /\ fut[c][B(p)].calls = 0
        /\ Verdict(c, CHOOSE l \in LeafIds(Sub(tree, B(p))) : TRUE) # Ok

\* C6: when A.check succeeded, the result of a completed PostAnd(A,B).check
\* is exactly B's result; PostAnd succeeds iff both succeeded.
C6_PostAndOutcome ==
    \A c \in Calls : \A p \in NodesOf({"PostAnd"}) :
        Done(c, p) =>
            LET a == fut[c][A(p)]
                b == fut[c][B(p)]
                r == fut[c][p].out
            IN  /\ a.st = "done"
                /\ a.out = Ok => (b.st = "done" /\ r = b.out)
                /\ r = Ok <=> (a.out = Ok /\ b.st = "done" /\ b.out = Ok)

C6_Witness ==
    \E c \in Calls : \E p \in NodesOf({"PostAnd"}) :
        /\ Done(c, p)
        /\ fut[c][A(p)].out = Ok
        /\ fut[c][B(p)].out # Ok
        /\ fut[c][p].out = fut[c][B(p)].out

\* C7: a completed check of the root of any nesting of And and Or has entered
\* every leaf exactly once and returns the pairwise rules applied bottom-up.
C7_Nested ==
    \A c \in Calls :
        (NodesOf({"PostAnd", "PostGuard"}) = {} /\ Done(c, <<>>)) =>
            /\ \A p \in NodesOf({"Guard"}) : fut[c][p].calls = 1 /\ Done(c, p)
            /\ \A p \in NodesOf({"And", "Or"}) : fut[c][p].calls = 1 /\ Done(c, p)
            /\ fut[c][<<>>].out = Expected(tree, ctx[c])

C7_Witness ==
    \E c \in Calls :
        /\ Done(c, <<>>)
        /\ tree = Or(And(Guard(1), Guard(2)), Guard(3))
        /\ ctx[c][1] = Ok /\ ctx[c][2] # Ok /\ ctx[c][3] # Ok
        /\ fut[c][<<>>].out = Err(3)

\* C8: check calls in flight at once on the same tree do not interfere: a
\* step of one call leaves every other call alone, every check that has
\* returned in the stepping call returned what the call's own context gives,
\* and the tree is never changed.
CallState(c) == <<status[c], ctx[c], fut[c]>>
C8_NoInterference ==
    [][ /\ tree' = tree
        /\ Cardinality({ c \in Calls : CallState(c)' # CallState(c) }) <= 1
        /\ \A c \in Calls :
               CallState(c)' # CallState(c) =>
                   \A p \in DOMAIN fut'[c] :
                       fut'[c][p].st = "done" =>
                           fut'[c][p].out = Expected(Sub(tree, p), ctx'[c]) ]_vars

C8_Witness ==
    \E c, d \in Calls :
        /\ c # d
        /\ Done(c, <<>>) /\ status[d] = "running" /\ Suspended(d)
        /\ \E p \in NodesOf({"Guard", "PostGuard"}) : Done(d, p)
        /\ ctx[c] # ctx[d]
        /\ fut[c][<<>>].out # Expected(tree, ctx[d])

\* C9: within one And(A,B).check or Or(A,B).check, B.check is not entered
\* until A.check has returned: the two are never in flight together.
C9_Sequential ==
    \A c \in Calls : \A p \in NodesOf({"And", "Or"}) :
        /\ fut[c][B(p)].st # "new" => fut[c][A(p)].st = "done"
        /\ ~(InFlight(c, A(p)) /\ InFlight(c, B(p)))

C9_Witness ==
    \E c \in Calls : \E p \in NodesOf({"And", "Or"}) :
        /\ InFlight(c, B(p))
        /\ Done(c, A(p))
        /\ fut[c][A(p)].out # Ok

\* C10: a call abandoned while suspended inside A.check never enters B.check
\* and produces no result; nothing of the call runs after it is dropped.
C10_Abandoned ==
    [][ \A c \in Calls :
          status'[c] = "dropped" =>
            /\ fut'[c] = fut[c]
            /\ fut'[c][<<>>].st # "done"
            /\ \A p \in NodesOf({"And", "Or", "PostAnd"}) :
                 fut'[c][A(p)].st = "run" =>
                    /\ fut'[c][A(p)].calls = 1
                    /\ fut'[c][B(p)].st = "new"
                    /\ fut'[c][B(p)].calls = 0 ]_vars

C10_Witness ==
    \E c \in Calls :
        /\ status[c] = "dropped"
        /\ tree.kind \in {"And", "Or", "PostAnd"}
        /\ InFlight(c, <<0>>)
        /\ fut[c][<<1>>].calls = 0
        /\ fut[c][<<>>].st = "run"
====
